---- MODULE Spec2Model ----
(***************************************************************************)
(* A state-machine model of the notebook                                   *)
(*   SAR_Training/English/Hazards/LosAngeles_time_series.ipynb             *)
(* executed top-to-bottom in one IPython kernel session.                   *)
(*                                                                         *)
(* The notebook is modelled as the sequence of its statements (Notebook).  *)
(* The kernel executes them in order; a Python exception halts the run.    *)
(* A shell statement ("!cmd") starts an external process, waits for it and *)
(* never raises, whatever the exit status.                                 *)
(***************************************************************************)
EXTENDS Integers, Sequences, FiniteSets

VARIABLES
    pc,         \* index in Notebook of the statement to execute next
    exc,        \* "none", or the name of the exception that halted the run
    ns,         \* kernel namespace: name -> kind of object bound to it
    urlStr,     \* content of the str bound to notebookUrl (tokens)
    envList,    \* content of the list bound to env (sequence of token strings)
    userList,   \* content of the list bound to user
    files,      \* the filesystem: set of existing paths
    cwd,        \* current working directory of the kernel process
    inflight,   \* statements whose external process is running
    invoked,    \* pipeline step invocations so far, in order
    failed,     \* shell statements whose process exited non-zero
    readlog,    \* product/config files named by statements executed so far
    out,        \* what the run printed / displayed, in order
    osenv       \* the process environment and installation (fixed per run)

vars == <<pc, exc, ns, urlStr, envList, userList, files, cwd, inflight,
          invoked, failed, readlog, out, osenv>>

----------------------------------------------------------------------------
(* Bounds of the model *)

\* longest generated CONDA_PREFIX value, in tokens after the leading "/"
MaxPrefixLen == 1

----------------------------------------------------------------------------
(* Strings are sequences of tokens; "/" and "/user" are separator tokens.  *)

\* str.split(sep): the fields between occurrences of sep
RECURSIVE Split(_, _)
Split(s, sep) ==
    IF s = <<>> THEN << <<>> >>
    ELSE LET rest == Split(Tail(s), sep)
         IN  IF Head(s) = sep
             THEN << <<>> >> \o rest
             ELSE << <<Head(s)>> \o Head(rest) >> \o Tail(rest)

\* seq[-1]
Last(seq) == seq[Len(seq)]

\* line 78: the literal the environment is compared with
InsarPrefix ==
    <<"/", "home", "/", "jovyan", "/", ".local", "/", "envs", "/", "insar_analysis">>

\* line 77: the replacement for an empty CONDA_PREFIX
BaseName == <<"Python 3 (base)">>

\* line 81: env[0].split("/")[-1]
ShownEnvName(e) == Last(Split(e, "/"))

\* line 83: notebookUrl.split("/user")[0] followed by /user/{user[0]}/...
EnvLink(url, u) == Split(url, "/user")[1] \o <<"/user", "/">> \o u

----------------------------------------------------------------------------
(* Paths.  A path is a string; the tree below is the part of the           *)
(* filesystem the notebook touches.                                        *)

\* /home/jovyan/notebooks/SAR_Training/English/Hazards, parent of work_dir
ParentDir == "Hazards"
\* line 121: work_dir
WorkDirPath == "Hazards/data_LA"
\* line 126: zipped_path = work_dir/'Stack.zip'
ZippedPath == "Hazards/data_LA/Stack.zip"
\* line 252: mint_dir = work_dir/'MintPy'
MintDirPath == "Hazards/data_LA/MintPy"
\* line 278: input_dir = mint_dir/'inputs'
InputDirPath == "Hazards/data_LA/MintPy/inputs"
\* the directory the kernel starts in (the notebook's own directory)
NbDir == "notebook_dir"

\* a name relative to a directory
InDir(dir, name) == dir \o "/" \o name

\* lines 131-132, 229, 257: what Stack.zip holds: the configuration file and
\* the pre-staged ARIA stack
ArchiveContent ==
    {InDir(WorkDirPath, "LASenDT71.txt"), InDir(WorkDirPath, "stack")}

\* the directory a path lives in, for the paths a statement may create
DirOf(p) ==
    CASE p = WorkDirPath -> ParentDir
      [] p = MintDirPath -> WorkDirPath
      [] p = ZippedPath -> WorkDirPath
      [] p \in ArchiveContent -> WorkDirPath
      [] p = InDir(MintDirPath, "LASenDT71.txt") -> MintDirPath
      [] OTHER -> MintDirPath

----------------------------------------------------------------------------
(* The notebook: its code cells, statement by statement, in file order.    *)
(* cell  = number of the cell in the file, line = line of the statement.   *)

Stmt(cell, line, kind) ==
    [cell |-> cell, line |-> line, kind |-> kind, op |-> "none",
     name |-> "none", value |-> "none", uses |-> {}, binds |-> {},
     tool |-> "none",
     step |-> "none", config |-> "none", reads |-> {}, writes |-> {},
     opt |-> {}, mayFail |-> FALSE, msg |-> "none"]

\* a statement with logic of its own, executed by the action named op;
\* uses are the names it reads, binds the names it assigns or imports
Py(cell, line, op, uses, binds) ==
    [Stmt(cell, line, "py") EXCEPT !.op = op, !.uses = uses, !.binds = binds]

\* name = value, where the expression reads the names in uses
Assign(cell, line, name, value, uses) ==
    [Stmt(cell, line, "assign") EXCEPT !.name = name, !.value = value,
                                       !.uses = uses, !.binds = {name}]

\* if not name.exists(): name.mkdir()
Mkdir(cell, line, name) ==
    [Stmt(cell, line, "mkdir") EXCEPT !.name = name, !.uses = {name}]

\* print(...)
ShowStmt(cell, line, msg, uses) ==
    [Stmt(cell, line, "print") EXCEPT !.msg = msg, !.uses = uses]

\* name = !echo $VAR
Echo(cell, line, name, var) ==
    [Stmt(cell, line, "sh") EXCEPT !.tool = "echo", !.name = name, !.value = var,
                                   !.binds = {name}]

\* !tool args : reads and writes are the files named on the command line
Shell(cell, line, tool, uses, reads, writes) ==
    [Stmt(cell, line, "sh") EXCEPT !.tool = tool, !.uses = uses, !.reads = reads,
                                   !.writes = writes, !.mayFail = TRUE]

\* !smallbaselineApp.py config --dostep step : config is relative to cwd;
\* writes are the products the notebook's text attributes to the step
PipelineStep(cell, line, step, config, writes, opt) ==
    [Stmt(cell, line, "sh") EXCEPT !.tool = "smallbaselineApp.py", !.step = step,
                                   !.config = config, !.writes = writes,
                                   !.opt = opt, !.mayFail = TRUE]

\* fn.main([... file ...])
Call(cell, line, fn, uses, file) ==
    [Stmt(cell, line, "call") EXCEPT !.name = fn, !.uses = uses, !.reads = {file}]

\* with mgr(mint_dir):
With(cell, line, mgr) ==
    [Stmt(cell, line, "with") EXCEPT !.name = mgr, !.uses = {"mint_dir"}]

\* end of the with block
EndWith(cell, line) == Stmt(cell, line, "endwith")

\* lines 106-107, 111: what the import cell binds after the install check
MintPyImports ==
    {"np", "view", "tsview", "plot_network", "plot_transection",
     "plot_coherence_matrix", "asfn"}

\* lines 59-61
CellUrlWidget == << Py(1, 59, "url_widget", {"display"}, {"url_w", "notebookUrl"}) >>

\* lines 70-84
CellEnvCheck ==
    << Py(2, 73, "url_value", {"notebookUrl"}, {"Markdown", "display", "notebookUrl"}),
       Echo(2, 74, "user", "JUPYTERHUB_USER"),
       Echo(2, 75, "env", "CONDA_PREFIX"),
       Py(2, 76, "env_check", {"env", "user", "notebookUrl", "display", "Markdown"}, {}) >>

\* lines 100-111
CellImports == << Py(4, 100, "imports", {}, {"Path", "zipfile"} \cup MintPyImports) >>

\* lines 120-136
CellWorkDir ==
    << Assign(5, 121, "work_dir", WorkDirPath, {"Path"}),
       Mkdir(5, 123, "work_dir"),
       Assign(5, 126, "zipped_path", ZippedPath, {"work_dir"}),
       Shell(5, 127, "aws s3 cp", {"zipped_path"}, {}, {ZippedPath}),
       Py(5, 130, "unzip", {"zipped_path", "zipfile", "work_dir"}, {}) >>

\* line 220
CellHelp == << Shell(13, 220, "smallbaselineApp.py --help", {}, {}, {}) >>

\* lines 251-260
CellLoadData ==
    << Assign(15, 252, "mint_dir", MintDirPath, {"work_dir"}),
       ShowStmt(15, 253, "mint_dir", {"mint_dir"}),
       Mkdir(15, 254, "mint_dir"),
       Shell(15, 257, "cp", {"work_dir", "mint_dir"},
             {InDir(WorkDirPath, "LASenDT71.txt")},
             {InDir(MintDirPath, "LASenDT71.txt")}),
       With(15, 259, "asfn"),
       PipelineStep(15, 260, "load_data", "LASenDT71.txt",
                    {InputDirPath, InDir(InputDirPath, "ifgramStack.h5"),
                     InDir(InputDirPath, "geometryGeo.h5")}, {}),
       EndWith(15, 260) >>

\* lines 278-279
CellListInputs ==
    << Assign(17, 278, "input_dir", InputDirPath, {"mint_dir"}),
       Shell(17, 279, "ls", {"input_dir"}, {InputDirPath}, {}) >>

\* line 299
CellInfoStack ==
    << Shell(19, 299, "info.py", {"input_dir"}, {InDir(InputDirPath, "ifgramStack.h5")}, {}) >>

\* line 308
CellInfoGeometry ==
    << Shell(20, 308, "info.py", {"input_dir"}, {InDir(InputDirPath, "geometryGeo.h5")}, {}) >>

\* lines 329-331
CellModifyNetwork ==
    << With(22, 329, "asfn"),
       PipelineStep(22, 330, "modify_network", "LASenDT71.txt", {}, {}),
       Call(22, 331, "plot_network", {"input_dir"}, InDir(InputDirPath, "ifgramStack.h5")),
       EndWith(22, 331) >>

\* lines 349-350
CellMask ==
    << Shell(24, 349, "generate_mask.py", {"input_dir"},
             {InDir(InputDirPath, "ifgramStack.h5")},
             {InDir(InputDirPath, "maskConnComp.h5")}),
       Call(24, 350, "view", {"input_dir"}, InDir(InputDirPath, "maskConnComp.h5")) >>

\* lines 380-381; avgSpatialCoh.h5 is viewed at line 503 and the notebook
\* names no step that writes it
CellReferencePoint ==
    << With(27, 380, "asfn"),
       PipelineStep(27, 381, "reference_point", "LASenDT71.txt", {},
                    {InDir(MintDirPath, "avgSpatialCoh.h5")}),
       EndWith(27, 381) >>

\* line 397
CellInfoRef ==
    << Shell(29, 397, "info.py | egrep", {"input_dir"},
             {InDir(InputDirPath, "ifgramStack.h5")}, {}) >>

\* lines 417-418
CellInvertNetwork ==
    << With(31, 417, "asfn"),
       PipelineStep(31, 418, "invert_network", "LASenDT71.txt",
                    {InDir(MintDirPath, "timeseries.h5"),
                     InDir(MintDirPath, "temporalCoherence.h5")}, {}),
       EndWith(31, 418) >>

\* lines 441-442
CellVelocity ==
    << With(33, 441, "asfn"),
       PipelineStep(33, 442, "velocity", "LASenDT71.txt",
                    {InDir(MintDirPath, "velocity.h5")}, {}),
       EndWith(33, 442) >>

\* lines 451-452
CellViewVelocity ==
    << Assign(34, 451, "scp_args", "velocity.h5 velocity -v -1 1", {"mint_dir"}),
       Call(34, 452, "view", {"scp_args"}, InDir(MintDirPath, "velocity.h5")) >>

\* line 503
CellViewSpatialCoh ==
    << Call(37, 503, "view", {"mint_dir"}, InDir(MintDirPath, "avgSpatialCoh.h5")) >>

\* line 525
CellViewTemporalCoh ==
    << Call(39, 525, "view", {"mint_dir"}, InDir(MintDirPath, "temporalCoherence.h5")) >>

\* lines 553-554
CellViewVelocityStd ==
    << Assign(41, 553, "scp_args", "velocity.h5 velocityStd -v 0 0.2", {"mint_dir"}),
       Call(41, 554, "view", {"scp_args"}, InDir(MintDirPath, "velocity.h5")) >>

\* lines 574-578
CellTransect ==
    << Assign(43, 574, "scp_args", "velocity.h5 --start-lalo --end-lalo", {"mint_dir"}),
       Call(43, 575, "plot_transection", {"scp_args"}, InDir(MintDirPath, "velocity.h5")),
       With(43, 577, "contextSwitch"),
       PipelineStep(43, 578, "google_earth", "smallbaselineApp.cfg", {}, {}),
       EndWith(43, 578) >>

\* variant: the velocity map is viewed before the velocity step is run
NotebookViewsBeforeVelocity ==
    CellUrlWidget \o CellEnvCheck \o CellImports \o CellWorkDir \o CellHelp
    \o CellLoadData \o CellListInputs \o CellInfoStack \o CellInfoGeometry
    \o CellModifyNetwork \o CellMask \o CellReferencePoint \o CellInfoRef
    \o CellInvertNetwork \o CellViewVelocity \o CellVelocity
    \o CellViewSpatialCoh \o CellViewTemporalCoh \o CellViewVelocityStd
    \o CellTransect

\* the code cells in file order
Notebook ==
    CellUrlWidget \o CellEnvCheck \o CellImports \o CellWorkDir \o CellHelp
    \o CellLoadData \o CellListInputs \o CellInfoStack \o CellInfoGeometry
    \o CellModifyNetwork \o CellMask \o CellReferencePoint \o CellInfoRef
    \o CellInvertNetwork \o CellVelocity \o CellViewVelocity
    \o CellViewSpatialCoh \o CellViewTemporalCoh \o CellViewVelocityStd
    \o CellTransect

\* the statement the kernel is at
Cur == Notebook[pc]

----------------------------------------------------------------------------
(* The environment of a run *)

\* all token sequences of length at most n over the set T
RECURSIVE SeqsUpTo(_, _)
SeqsUpTo(T, n) ==
    IF n = 0 THEN { <<>> }
    ELSE LET shorter == SeqsUpTo(T, n - 1)
         IN  shorter \cup { Append(s, t) : s \in shorter, t \in T }

\* values of $CONDA_PREFIX: unset (empty), the expected prefix, and short
\* absolute paths, among them another location of an environment named
\* insar_analysis
CondaPrefixes ==
    { <<>>, InsarPrefix }
    \cup { <<"/">> \o s : s \in SeqsUpTo({"/", "insar_analysis", "base"}, MaxPrefixLen) }

\* values of $JUPYTERHUB_USER: unset, or a user name
Users == { <<>>, <<"alice">> }

\* values of the URL widget when the check cell reads it: not yet synced
\* by the front end, or the URL of the notebook
WidgetValues ==
    { <<>>, <<"https://opensarlab", "/user", "/", "alice", "/", "notebooks">> }

\* filesystems a run can start from: nothing, the parent only, the work
\* directory (empty, with a stale archive, or with an earlier extraction and
\* MintPy directory)
InitialFilesystems ==
    { {}, {ParentDir}, {ParentDir, WorkDirPath},
      {ParentDir, WorkDirPath, ZippedPath},
      {ParentDir, WorkDirPath} \cup ArchiveContent,
      {ParentDir, WorkDirPath, MintDirPath} \cup ArchiveContent }

\* the names the cells bind or read
Names ==
    {"url_w", "notebookUrl", "display", "Markdown", "user", "env", "Path",
     "zipfile", "np", "view", "tsview", "plot_network", "plot_transection",
     "plot_coherence_matrix", "asfn", "work_dir", "zipped_path", "mint_dir",
     "input_dir", "scp_args", "contextSwitch"}

\* a fresh kernel: only IPython's own display is bound
FreshNamespace == [n \in Names |-> IF n = "display" THEN "function" ELSE "unbound"]

Init ==
    /\ pc = 1
    /\ exc = "none"
    /\ ns = FreshNamespace
    /\ urlStr = <<>>
    /\ envList = <<>>
    /\ userList = <<>>
    /\ files \in InitialFilesystems
    /\ cwd = NbDir
    /\ inflight = {}
    /\ invoked = <<>>
    /\ failed = {}
    /\ readlog = {}
    /\ out = <<>>
    /\ osenv \in [CONDA_PREFIX : CondaPrefixes, JUPYTERHUB_USER : Users,
                  widgetValue : WidgetValues, mintpy : BOOLEAN]

----------------------------------------------------------------------------
(* The kernel *)

\* the kernel is about to execute a statement of the given kind
At(kind) == exc = "none" /\ pc \in 1..Len(Notebook) /\ Cur.kind = kind

\* the kernel is about to execute the statement with logic op
AtOp(op) == At("py") /\ Cur.op = op

\* some name of the set is not bound: evaluating it raises NameError
Unbound(names) == \E n \in names : ns[n] = "unbound"

\* something printed or displayed
Output(msg, arg) == [msg |-> msg, arg |-> arg]

\* an uncaught exception halts the run; leaving a with block on the way out
\* restores the working directory
Raise(e) ==
    /\ exc' = e
    /\ cwd' = NbDir
    /\ UNCHANGED <<pc, urlStr, envList, userList, files, inflight, invoked,
                   failed, readlog, out, osenv>>

\* lines 59-61: import url_widget; notebookUrl = URLWidget(); display(...)
UrlWidget ==
    /\ AtOp("url_widget")
    /\ ns' = [ns EXCEPT !["url_w"] = "module", !["notebookUrl"] = "widget"]
    /\ out' = Append(out, Output("widget", <<>>))
    /\ pc' = pc + 1
    /\ UNCHANGED <<exc, urlStr, envList, userList, files, cwd, inflight,
                   invoked, failed, readlog, osenv>>

\* lines 70-73: the imports, then notebookUrl = notebookUrl.value
UrlValue ==
    /\ AtOp("url_value")
    /\ LET imported == [ns EXCEPT !["Markdown"] = "class", !["display"] = "function"]
       IN  CASE ns["notebookUrl"] = "widget" ->
                  /\ ns' = [imported EXCEPT !["notebookUrl"] = "str"]
                  /\ urlStr' = osenv.widgetValue
                  /\ pc' = pc + 1
                  /\ UNCHANGED <<exc, envList, userList, files, cwd, inflight,
                                 invoked, failed, readlog, out, osenv>>
             [] ns["notebookUrl"] = "unbound" ->
                  ns' = imported /\ Raise("NameError")
             [] OTHER ->
                  ns' = imported /\ Raise("AttributeError")

\* lines 76-84: the environment check proper
WarningFor(e0, url, u) ==
    << Output("WARNING", <<>>),
       Output("should be run using insar_analysis", <<>>),
       Output("currently using", ShownEnvName(e0)),
       Output("select insar_analysis", <<>>),
       Output("create with", EnvLink(url, u)),
       Output("restart your server", <<>>) >>

\* line 78: the condition under which the warning is displayed
EnvMismatch(e0) == e0 # InsarPrefix

\* variant: the check raises on a mismatch instead of displaying a warning
EnvCheckHalts ==
    /\ AtOp("env_check")
    /\ IF Unbound(Cur.uses)
       THEN Raise("NameError") /\ UNCHANGED ns
       ELSE LET e0 == IF envList[1] = <<>> THEN BaseName ELSE envList[1]
            IN  IF EnvMismatch(e0)
                THEN Raise("RuntimeError") /\ UNCHANGED ns
                ELSE /\ envList' = [envList EXCEPT ![1] = e0]
                     /\ pc' = pc + 1
                     /\ UNCHANGED <<exc, ns, urlStr, userList, files, cwd, inflight,
                                    invoked, failed, readlog, out, osenv>>

EnvCheck ==
    /\ AtOp("env_check")
    /\ IF Unbound(Cur.uses)
       THEN Raise("NameError") /\ UNCHANGED ns
       ELSE LET e0 == IF envList[1] = <<>> THEN BaseName ELSE envList[1]
            IN  /\ envList' = [envList EXCEPT ![1] = e0]
                /\ out' = IF EnvMismatch(e0)
                          THEN out \o WarningFor(e0, urlStr, userList[1])
                          ELSE out
                /\ pc' = pc + 1
                /\ UNCHANGED <<exc, ns, urlStr, userList, files, cwd, inflight,
                               invoked, failed, readlog, osenv>>

\* variant: the ImportError is caught and the cell completes
ImportsSwallowsError ==
    /\ AtOp("imports")
    /\ LET std == [ns EXCEPT !["Path"] = "class", !["zipfile"] = "module"]
       IN  /\ ns' = IF osenv.mintpy
                    THEN [n \in Names |-> IF n \in MintPyImports THEN "module" ELSE std[n]]
                    ELSE std
           /\ pc' = pc + 1
           /\ UNCHANGED <<exc, urlStr, envList, userList, files, cwd,
                          inflight, invoked, failed, readlog, out, osenv>>

\* lines 100-111: imports and the MintPy install check
Imports ==
    /\ AtOp("imports")
    /\ LET std == [ns EXCEPT !["Path"] = "class", !["zipfile"] = "module"]
       IN  IF osenv.mintpy
           THEN /\ ns' = [n \in Names |-> IF n \in MintPyImports THEN "module" ELSE std[n]]
                /\ pc' = pc + 1
                /\ UNCHANGED <<exc, urlStr, envList, userList, files, cwd,
                               inflight, invoked, failed, readlog, out, osenv>>
           ELSE ns' = std /\ Raise("ImportError")

\* variant: the archive is extracted but not deleted (no unlink)
UnzipKeepsArchive ==
    /\ AtOp("unzip")
    /\ IF Unbound(Cur.uses)
       THEN Raise("NameError") /\ UNCHANGED ns
       ELSE /\ IF ZippedPath \in files
               THEN /\ files' = files \cup ArchiveContent
                    /\ out' = Append(out, Output("S3 pre-staged data retrieval was successfull", <<>>))
               ELSE /\ files' = files
                    /\ out' = Append(out, Output("Download outside openSarLabs is not supported", <<>>))
            /\ pc' = pc + 1
            /\ UNCHANGED <<exc, ns, urlStr, envList, userList, cwd, inflight,
                           invoked, failed, readlog, osenv>>

\* lines 130-136: the archive-existence check
Unzip ==
    /\ AtOp("unzip")
    /\ IF Unbound(Cur.uses)
       THEN Raise("NameError") /\ UNCHANGED ns
       ELSE /\ IF ZippedPath \in files
               THEN /\ files' = (files \cup ArchiveContent) \ {ZippedPath}
                    /\ out' = Append(out, Output("S3 pre-staged data retrieval was successfull", <<>>))
               ELSE /\ files' = files
                    /\ out' = Append(out, Output("Download outside openSarLabs is not supported", <<>>))
            /\ pc' = pc + 1
            /\ UNCHANGED <<exc, ns, urlStr, envList, userList, cwd, inflight,
                           invoked, failed, readlog, osenv>>

\* lines 121, 126, 252, 278, 451, 553, 574: name = expression
AssignName ==
    /\ At("assign")
    /\ IF Unbound(Cur.uses)
       THEN Raise("NameError") /\ UNCHANGED ns
       ELSE /\ ns' = [ns EXCEPT ![Cur.name] = Cur.value]
            /\ pc' = pc + 1
            /\ UNCHANGED <<exc, urlStr, envList, userList, files, cwd, inflight,
                           invoked, failed, readlog, out, osenv>>

\* variant: d.mkdir() without the exists() guard raises on an existing d
MkdirUnguarded ==
    /\ At("mkdir")
    /\ IF Unbound(Cur.uses)
       THEN Raise("NameError") /\ UNCHANGED ns
       ELSE LET d == ns[Cur.name]
            IN  IF d \in files
                THEN Raise("FileExistsError") /\ UNCHANGED ns
                ELSE IF DirOf(d) \notin files
                     THEN Raise("FileNotFoundError") /\ UNCHANGED ns
                     ELSE /\ files' = files \cup {d}
                          /\ pc' = pc + 1
                          /\ UNCHANGED <<exc, ns, urlStr, envList, userList, cwd,
                                         inflight, invoked, failed, readlog, out, osenv>>

\* lines 123-124, 254-255: if not d.exists(): d.mkdir()
\* Path.mkdir() without parents=True raises when the parent is missing
MkdirIfAbsent ==
    /\ At("mkdir")
    /\ IF Unbound(Cur.uses)
       THEN Raise("NameError") /\ UNCHANGED ns
       ELSE LET d == ns[Cur.name]
            IN  IF d \notin files /\ DirOf(d) \notin files
                THEN Raise("FileNotFoundError") /\ UNCHANGED ns
                ELSE /\ files' = files \cup {d}
                     /\ pc' = pc + 1
                     /\ UNCHANGED <<exc, ns, urlStr, envList, userList, cwd,
                                    inflight, invoked, failed, readlog, out, osenv>>

\* line 253: print(mint_dir, type(mint_dir))
ShowValue ==
    /\ At("print")
    /\ IF Unbound(Cur.uses)
       THEN Raise("NameError") /\ UNCHANGED ns
       ELSE /\ out' = Append(out, Output(Cur.msg, <<>>))
            /\ pc' = pc + 1
            /\ UNCHANGED <<exc, ns, urlStr, envList, userList, files, cwd,
                           inflight, invoked, failed, readlog, osenv>>

\* the files a shell statement names, relative names resolved in cwd
Inputs(st, dir) ==
    st.reads \cup (IF st.config = "none" THEN {} ELSE {InDir(dir, st.config)})

\* variant: the process is started in the background and the kernel moves on
AfterStartAsync(p) == p + 1

\* where the kernel stands once a "!" statement has started its process:
\* IPython's system call waits, so it stays on that statement
AfterStart(p) == p

\* "!cmd": the external process is started
ShellStart ==
    /\ At("sh")
    /\ pc \notin inflight
    /\ inflight' = inflight \cup {pc}
    /\ invoked' = IF Cur.step = "none" THEN invoked
                  ELSE Append(invoked, [step |-> Cur.step, config |-> Cur.config,
                                        cwd |-> cwd])
    /\ readlog' = readlog \cup Inputs(Cur, cwd)
    /\ pc' = AfterStart(pc)
    /\ UNCHANGED <<exc, ns, urlStr, envList, userList, files, cwd, failed,
                   out, osenv>>

\* variant: a non-zero exit status is raised, as subprocess.check_call does
OnExitRaises(ok) == IF ok THEN "none" ELSE "CalledProcessError"

\* what the kernel does with the exit status of a "!" statement: nothing,
\* the next statement is executed whether the process succeeded or not
OnExit(ok) == "none"

\* "!cmd": the external process exits, with status zero (ok) or not.
\* It can succeed only if the files it names exist; then it writes its
\* products.  "name = !echo $VAR" binds the captured output as a list.
ShellFinish(p, ok, extra) ==
    /\ exc = "none"
    /\ p \in inflight
    /\ LET st == Notebook[p]
       IN  /\ ok => /\ Inputs(st, cwd) \subseteq files
                    /\ \A w \in st.writes : DirOf(w) \in files
           /\ ~ok => st.mayFail
           /\ extra \subseteq st.opt
           /\ ~ok => extra = {}
           /\ files' = IF ok THEN files \cup st.writes \cup extra ELSE files
           /\ failed' = IF ok THEN failed ELSE failed \cup {p}
           /\ ns' = IF st.tool = "echo" THEN [ns EXCEPT ![st.name] = "list"] ELSE ns
           /\ envList' = IF st.tool = "echo" /\ st.name = "env"
                         THEN << osenv[st.value] >> ELSE envList
           /\ userList' = IF st.tool = "echo" /\ st.name = "user"
                          THEN << osenv[st.value] >> ELSE userList
           /\ inflight' = inflight \ {p}
           /\ exc' = OnExit(ok)
           /\ pc' = IF OnExit(ok) = "none" THEN p + 1 ELSE p
           /\ UNCHANGED <<urlStr, cwd, invoked, readlog, out, osenv>>

\* lines 331, 350, 452, 503, 525, 554, 575: fn.main([file, ...]) reads the
\* product file and renders a figure; a missing file raises
CallMain ==
    /\ At("call")
    /\ IF Unbound({Cur.name} \cup Cur.uses)
       THEN Raise("NameError") /\ UNCHANGED <<ns, readlog>>
       ELSE /\ readlog' = readlog \cup Cur.reads
            /\ IF Cur.reads \subseteq files
               THEN /\ out' = Append(out, Output("figure", <<>>))
                    /\ pc' = pc + 1
                    /\ UNCHANGED <<exc, ns, urlStr, envList, userList, files,
                                   cwd, inflight, invoked, failed, osenv>>
               ELSE /\ exc' = "FileNotFoundError"
                    /\ cwd' = NbDir
                    /\ UNCHANGED <<pc, ns, urlStr, envList, userList, files,
                                   inflight, invoked, failed, out, osenv>>

\* lines 259, 329, 380, 417, 441, 577: with mgr(mint_dir): changes into
\* the directory for the duration of the block
WithEnter ==
    /\ At("with")
    /\ IF Unbound({Cur.name} \cup Cur.uses)
       THEN Raise("NameError") /\ UNCHANGED ns
       ELSE IF ns["mint_dir"] \notin files
            THEN Raise("FileNotFoundError") /\ UNCHANGED ns
            ELSE /\ cwd' = ns["mint_dir"]
                 /\ pc' = pc + 1
                 /\ UNCHANGED <<exc, ns, urlStr, envList, userList, files,
                                inflight, invoked, failed, readlog, out, osenv>>

\* the end of a with block restores the working directory
WithExit ==
    /\ At("endwith")
    /\ cwd' = NbDir
    /\ pc' = pc + 1
    /\ UNCHANGED <<exc, ns, urlStr, envList, userList, files, inflight,
                   invoked, failed, readlog, out, osenv>>

\* the files an external process may write besides its named products
OptionalFiles == UNION { Notebook[i].opt : i \in 1..Len(Notebook) }

Next ==
    \/ UrlWidget
    \/ UrlValue
    \/ EnvCheck
    \/ Imports
    \/ AssignName
    \/ MkdirIfAbsent
    \/ ShowValue
    \/ ShellStart
    \/ \E p \in inflight, ok \in BOOLEAN, extra \in SUBSET OptionalFiles :
          ShellFinish(p, ok, extra)
    \/ Unzip
    \/ CallMain
    \/ WithEnter
    \/ WithExit

Spec == Init /\ [][Next]_vars

----------------------------------------------------------------------------
(* Sessions in which the notebook is started again, or a cell is executed  *)
(* a second time.                                                          *)

\* line 91: the notebook is started again after a run has ended: a fresh
\* kernel on the filesystem the run left
RestartKernel ==
    /\ exc # "none" \/ pc > Len(Notebook)
    /\ pc' = 1
    /\ exc' = "none"
    /\ ns' = FreshNamespace
    /\ urlStr' = <<>>
    /\ envList' = <<>>
    /\ userList' = <<>>
    /\ cwd' = NbDir
    /\ inflight' = {}
    /\ invoked' = <<>>
    /\ failed' = {}
    /\ readlog' = {}
    /\ out' = <<>>
    /\ UNCHANGED <<files, osenv>>

\* lines 70-84: the environment check cell, having completed, is executed
\* again in the same session (the URL-widget cell is not)
ReExecuteEnvCheck ==
    /\ exc = "none"
    /\ pc = 1 + Len(CellUrlWidget) + Len(CellEnvCheck)
    /\ ns["notebookUrl"] = "str"
    /\ pc' = 1 + Len(CellUrlWidget)
    /\ UNCHANGED <<exc, ns, urlStr, envList, userList, files, cwd, inflight,
                   invoked, failed, readlog, out, osenv>>

\* the sessions start on an OpenSARlab-like machine: the environment
\* variables are set, CONDA_PREFIX to the expected prefix or to another one
InitRerun ==
    /\ Init
    /\ osenv.CONDA_PREFIX \in {InsarPrefix, <<"/", "base">>}
    /\ osenv.JUPYTERHUB_USER = <<"alice">>
    /\ osenv.widgetValue # <<>>

NextRerun ==
    \/ Next
    \/ RestartKernel
    \/ ReExecuteEnvCheck

SpecRerun == InitRerun /\ [][NextRerun]_vars

----------------------------------------------------------------------------
(* Vocabulary of the properties *)

\* the run has halted on an exception or has executed its last statement
RunEnded == exc # "none" \/ pc > Len(Notebook)

\* the statement at which the run stands (halted there, or about to run it)
Here == IF pc \in 1..Len(Notebook) THEN Notebook[pc] ELSE Stmt(0, 0, "end")

\* index of the statement executed by the action op
OpIdx(op) == CHOOSE i \in 1..Len(Notebook) : Notebook[i].op = op

\* index of the statement invoking a pipeline step
StepIdx(step) == CHOOSE i \in 1..Len(Notebook) : Notebook[i].step = step

\* the names of the steps invoked so far, in order
StepsInvoked == [i \in 1..Len(invoked) |-> invoked[i].step]

\* the six named steps of the invocation surface
PipelineSteps ==
    <<"load_data", "modify_network", "reference_point", "invert_network",
      "velocity", "google_earth">>

\* the warning of the environment check has been displayed
Warned == \E i \in 1..Len(out) : out[i].msg = "WARNING"

\* the environment names shown by the warnings displayed
ShownNames == { out[i].arg : i \in { j \in 1..Len(out) : out[j].msg = "currently using" } }

\* the environment check cell has been executed completely
EnvChecked == pc > OpIdx("env_check")

----------------------------------------------------------------------------
(* C1: in a run in which every external command (and every plotting call)  *)
(* succeeds, the pipeline is invoked with load_data, modify_network,       *)
(* reference_point, invert_network, velocity, google_earth, in that order, *)
(* each once: when such a run has ended, these six are the steps invoked.  *)
C1_AllStepsInOrder ==
    (RunEnded /\ failed = {} /\ exc \notin {"ImportError", "FileNotFoundError"})
        => StepsInvoked = PipelineSteps

(* C2 as stated: a pipeline step that exits non-zero halts the run at that *)
(* statement, so no later step is invoked and the step is not retried.     *)
C2_FailureHaltsRun ==
    \A p \in failed :
        Notebook[p].step # "none" =>
            /\ exc # "none" /\ pc = p
            /\ Last(StepsInvoked) = Notebook[p].step

(* C2 amended: a non-zero exit of a pipeline step is never raised: no      *)
(* exception is ever raised at a shell statement, the run stands past      *)
(* every statement whose process failed, and no step is invoked twice      *)
(* (no retry).                                                             *)
C2_FailureIgnored ==
    /\ exc # "none" => Here.kind # "sh"
    /\ \A p \in failed : pc > p
    /\ \A i, j \in 1..Len(invoked) : invoked[i].step = invoked[j].step => i = j

\* a step has failed and a later step has been invoked all the same
C2_Witness ==
    /\ StepIdx("reference_point") \in failed
    /\ Len(invoked) > 3 /\ Last(StepsInvoked) = "invert_network"

C4_CheckNeverHalts == exc # "none" => Here.cell # 2

\* both variables unset: the warning was displayed and the run is at the
\* next cell
C4_Witness ==
    /\ osenv.CONDA_PREFIX = <<>> /\ osenv.JUPYTERHUB_USER = <<>>
    /\ Warned /\ exc = "none" /\ pc = OpIdx("imports")

(* C5: the warning is displayed exactly when the notebook is not running   *)
(* in the environment named insar_analysis (the last path component of     *)
(* CONDA_PREFIX), an unset CONDA_PREFIX is shown as "Python 3 (base)", and *)
(* the name shown in a warning is never insar_analysis.                    *)
C5_WarningIffNotInsar ==
    EnvChecked =>
        /\ Warned <=> Last(Split(osenv.CONDA_PREFIX, "/")) # <<"insar_analysis">>
        /\ osenv.CONDA_PREFIX = <<>> => ShownNames = {BaseName}
        /\ <<"insar_analysis">> \notin ShownNames

(* C6: every pipeline step is invoked with the same configuration file,    *)
(* LASenDT71.txt: the invocations made so far passed it, after the copy    *)
(* into the MintPy directory was made, and every step invocation of the    *)
(* cell the run stands in names it.                                        *)
C6_SameConfigEverywhere ==
    /\ \A i \in 1..Len(invoked) : invoked[i].config = "LASenDT71.txt"
    /\ invoked # <<>> => InDir(WorkDirPath, "LASenDT71.txt") \in readlog
    /\ \A i \in 1..Len(Notebook) :
          (Notebook[i].cell = Here.cell /\ Notebook[i].step # "none")
              => Notebook[i].config = "LASenDT71.txt"

(* C7: a pipeline step is a blocking invocation: at most one external      *)
(* process is in flight, and while one is in flight the kernel stands at   *)
(* the statement that started it (no later statement or cell has started). *)
C7_Blocking ==
    /\ Cardinality(inflight) <= 1
    /\ inflight # {} => inflight = {pc}

\* the modify_network process is in flight, plot_network has not started
C7_Witness ==
    /\ inflight = {StepIdx("modify_network")}
    /\ \A i \in 1..Len(out) : out[i].msg # "figure"

\* the step the notebook's text names as the writer of a product file
Producer ==
    [f \in {InDir(InputDirPath, "ifgramStack.h5"), InDir(InputDirPath, "geometryGeo.h5"),
            InDir(MintDirPath, "temporalCoherence.h5"), InDir(MintDirPath, "velocity.h5")} |->
        CASE f = InDir(MintDirPath, "temporalCoherence.h5") -> "invert_network"
          [] f = InDir(MintDirPath, "velocity.h5") -> "velocity"
          [] OTHER -> "load_data"]

(* C8: a product file is read only after the step that writes it has been  *)
(* invoked in the same run: ifgramStack.h5 and geometryGeo.h5 after        *)
(* load_data, temporalCoherence.h5 after invert_network, velocity.h5 after *)
(* velocity.                                                               *)
C8_ReadAfterWrite ==
    \A f \in readlog \cap DOMAIN Producer :
        \E i \in 1..Len(invoked) : invoked[i].step = Producer[f]

\* all four products have been read back
C8_Witness == DOMAIN Producer \subseteq readlog

\* the names some cell reads without having bound them itself
ReadAcrossCells ==
    { n \in Names :
        \E i \in 1..Len(Notebook) :
            /\ n \in Notebook[i].uses \cup
                     (IF Notebook[i].kind \in {"call", "with"} THEN {Notebook[i].name} ELSE {})
            /\ ~\E j \in 1..(i - 1) :
                   Notebook[j].cell = Notebook[i].cell /\ n \in Notebook[j].binds }

(* C9: no cell changes a kernel value that another cell, or a later        *)
(* execution of the same cell, reads: a name that some cell reads without  *)
(* having bound it itself keeps its value once bound.                      *)
C9_NoSharedValueChanges ==
    [][ \A n \in ReadAcrossCells : ns[n] # "unbound" => ns'[n] = ns[n] ]_vars

(* C10: the setup cell never raises: from every initial filesystem and for *)
(* every outcome of the download it reaches the success branch or the      *)
(* fallback branch.                                                        *)
C10_SetupNeverRaises == exc # "none" => Here.cell # 5

C13_NoNameError == exc # "NameError"

(* C14: no pipeline step runs on missing inputs: whenever a step naming    *)
(* LASenDT71.txt has been invoked, the archive was extracted in this run   *)
(* (the success message was printed) and the configuration file is in the  *)
(* working directory of the invocation.                                    *)
C14_NoStepOnMissingInputs ==
    \A i \in 1..Len(invoked) :
        invoked[i].config = "LASenDT71.txt" =>
            /\ InDir(invoked[i].cwd, invoked[i].config) \in files
            /\ \E k \in 1..Len(out) :
                   out[k].msg = "S3 pre-staged data retrieval was successfull"

\* the paths the setup cells create, extract or delete
SetupPaths == {ParentDir, WorkDirPath, ZippedPath} \cup ArchiveContent

(* C11: the setup cells can be run each time the notebook is started:      *)
(* directory creation is skipped when the directory exists (no mkdir       *)
(* raises on an existing work or MintPy directory), with MintPy installed  *)
(* the setup cells do not raise on a filesystem that has the work          *)
(* directory, and after a successful download the work directory is in the *)
(* same state in every run: archive content extracted, no Stack.zip.       *)
C11_SetupRerunnable ==
    /\ (exc # "none" /\ Here.kind = "mkdir") => ns[Here.name] \notin files
    /\ (exc # "none" /\ Here.cell \in {4, 5} /\ osenv.mintpy) => WorkDirPath \notin files
    /\ (exc = "none" /\ pc = OpIdx("unzip") + 1 /\ (OpIdx("unzip") - 1) \notin failed)
          => files \cap SetupPaths = {ParentDir, WorkDirPath} \cup ArchiveContent

\* the setup cells have completed, with a successful download, on a
\* filesystem on which an earlier run had copied the configuration file
C11_Witness ==
    /\ exc = "none" /\ pc = OpIdx("unzip") + 1 /\ failed = {}
    /\ invoked = <<>>
    /\ InDir(MintDirPath, "LASenDT71.txt") \in files
    /\ files \cap SetupPaths = {ParentDir, WorkDirPath} \cup ArchiveContent

(* C15: the environment check cell can be executed a second time in the    *)
(* same session without executing the URL-widget cell again: its first     *)
(* statement (notebookUrl = notebookUrl.value) never raises.               *)
C15_CheckReExecutable == ~(exc # "none" /\ Here.op = "url_value")

====
